---- MODULE Spec2Model ----
(***************************************************************************)
(* Model of the pydoll scraping service (apps/pydoll-service/app.py).      *)
(*                                                                         *)
(* Every request is one asyncio task running scrape_endpoint, which calls  *)
(* scrape_with_pydoll.  A task only gives up control at an `await`, so one *)
(* action of the model is the completion of the awaited driver call plus   *)
(* all the synchronous code up to the next await.  pc[r] names the call    *)
(* the task of request r is awaiting.  The pydoll driver, the file system  *)
(* and the clock are the environment: every call may succeed or raise, and *)
(* takes a duration drawn from a small set (milliseconds).                 *)
(***************************************************************************)
EXTENDS Integers, Sequences, FiniteSets, TLC

\* ---------------------------------------------------------------- bounds

\* Number of request tasks the server may run concurrently.
NumRequests == 2

Requests == 1..NumRequests

\* ------------------------------------------------------ program constants

\* timeout: Optional[int] = 60000, and `request.timeout or 60000`
DefaultTimeout == 60000
\* await asyncio.sleep(6) when wait_after_load is not > 0
DefaultSleepMs == 6000
\* tab.find_element(..., timeout=10)
SelectorTimeoutMs == 10000
\* page_status_code = 200
StatusOK == 200
\* HTTP status of a request pydantic refuses / of HTTPException(status_code=500)
HttpUnprocessable == 422
HttpServerError == 500

\* Design constants of the specification the code is compared with.
\* SessionPool capacity ("pick pool size 1 to reproduce original behavior").
PoolCapacity == 1
\* "response delivered within ~1000-1200ms" for timeoutMs = 1000.
OverheadMs == 200

\* ------------------------------------------------------- Python's values

\* Optional[T]: None is the empty tuple, a value v is <<v>>.
None == <<>>
Some(v) == <<v>>
IsNone(o) == o = None
Get(o) == o[1]

\* Truthiness of Optional[int], Optional[str], Optional[bool], Optional[dict].
TruthyInt(o) == o # None /\ Get(o) # 0
TruthyStr(o) == o # None /\ Get(o) # ""
TruthyBool(o) == o # None /\ Get(o)
TruthyDict(o) == o # None /\ Get(o) # {}

\* `x or d` on an Optional[int].
OrInt(o, d) == IF TruthyInt(o) THEN Get(o) ELSE d

\* ---------------------------------------------------------------- inputs

\* A URL as pydantic sees it: its scheme and host ("" when it has none).
HttpsUrl == [scheme |-> "https", host |-> "example.com"]
FtpUrl == [scheme |-> "ftp", host |-> "example.com"]
NotAUrl == [scheme |-> "", host |-> ""]
Urls == {HttpsUrl, FtpUrl, NotAUrl}

WaitValues == {None, Some(-1000), Some(0), Some(1000)}
TimeoutValues == {None, Some(-1), Some(0), Some(1000)}
HeaderValues == {None, Some({<<"X-Test", "1">>})}
SelectorValues == {None, Some("#main")}
BoolValues == {Some(FALSE), Some(TRUE)}

\* Every JSON body the model sends to POST /scrape.
Payloads ==
    [url : Urls, wait_after_load : WaitValues, timeout : TimeoutValues,
     headers : HeaderValues, check_selector : SelectorValues,
     screenshot : BoolValues, full_page_screenshot : BoolValues]

\* The bodies used when several requests run concurrently: one that takes
\* every step of the protocol, and one pydantic refuses.
FullPayload ==
    [url |-> HttpsUrl, wait_after_load |-> Some(1000), timeout |-> Some(1000),
     headers |-> None, check_selector |-> Some("#main"),
     screenshot |-> Some(TRUE), full_page_screenshot |-> Some(FALSE)]
ConcurrentPayloads == {FullPayload, [FullPayload EXCEPT !.url = NotAUrl]}

\* ----------------------------------------------------------- environment

\* Messages an exception of the driver or the OS may carry (str(e)).
ErrorMessages == {"", "net::ERR_NAME_NOT_RESOLVED"}
\* What tab.page_source may return.
PageSources == {"", "<html>example</html>"}
\* How long a navigation may take before go_to returns or raises.
NavDurations == {500, 2000}
\* How long find_element takes when the selector appears.
SelectorFoundMs == 100
\* How long take_screenshot takes.
ScreenshotMs == 300
\* The bytes take_screenshot writes to the file (the start of a PNG).
PngBytes == <<137, 80, 78, 71>>

\* base64.b64encode(bytes).decode('utf-8'): the text as the sequence of its
\* symbols, 0..63 for the alphabet and 64 for the padding '='.
B64Pad == 64
B64Group(a, b, c, n) ==
    LET v == a * 65536 + b * 256 + c
    IN  << v \div 262144,
           (v \div 4096) % 64,
           IF n >= 2 THEN (v \div 64) % 64 ELSE B64Pad,
           IF n >= 3 THEN v % 64 ELSE B64Pad >>
RECURSIVE b64encode(_)
b64encode(bytes) ==
    LET n == Len(bytes)
    IN  IF n = 0 THEN <<>>
        ELSE IF n = 1 THEN B64Group(bytes[1], 0, 0, 1)
        ELSE IF n = 2 THEN B64Group(bytes[1], bytes[2], 0, 2)
        ELSE B64Group(bytes[1], bytes[2], bytes[3], 3)
             \o b64encode(SubSeq(bytes, 4, n))

\* What a call of the driver or of the OS may do: return, or raise an
\* Exception carrying a message.
Returns == [kind |-> "ok", msg |-> ""]
Raises == [kind : {"Exception"}, msg : ErrorMessages]
CallOutcomes == {Returns} \cup Raises
\* tab.go_to may also raise pydoll's PageLoadTimeout.
PageLoadTimeout == [kind |-> "PageLoadTimeout", msg |-> "Page load timed out"]

\* ------------------------------------------------------------------ state

VARIABLES
    request,    \* request[r]: the JSON body of request r, None when there is none
    pc,         \* pc[r]: the call the task of r awaits, or where it ended
    frame,      \* frame[r]: the locals of scrape_with_pydoll
    browser,    \* browser[r]: the Chrome object bound to `browser`, 0 = unbound
    chrome,     \* chrome[b]: the Chrome object b and its browser process
    created,    \* number of Chrome objects constructed so far
    tmpfiles,   \* the temporary screenshot files on disk (named by request)
    elapsed,    \* elapsed[r]: ms since start_time
    calls,      \* calls[r]: the driver calls the task of r made, in order
    response,   \* response[r]: the HTTP response, None before it is sent
    world,      \* what the driver and the OS may do in this run (never changes)
    virtual_display  \* the Xvfb display of the process: "started" at import
                     \* (40-44) and while requests are served, "stopped" or
                     \* "stop_failed" once shutdown_event has run

vars == <<request, pc, frame, browser, chrome, created, tmpfiles, elapsed,
          calls, response, world, virtual_display>>

\* The environment at its widest: every outcome of every call.
AnyWorld ==
    [raises |-> Raises,               \* what a call that raises may raise
     nav_ms |-> NavDurations,         \* how long go_to may take
     sources |-> PageSources,         \* what tab.page_source may return
     window |-> CallOutcomes,         \* outcomes of set_window_bounds
     selector |-> CallOutcomes,       \* outcomes of find_element
     tmp_made |-> BOOLEAN,            \* whether NamedTemporaryFile succeeds
     shot_raising |-> {"none", "take_screenshot", "read", "unlink"},
     cancel_at |-> {"start", "new_tab", "set_window_bounds", "go_to", "sleep",
                    "find_element", "page_source", "take_screenshot", "stop"}]
                                      \* the awaits at which a task may be cancelled

\* A narrow environment for runs of several concurrent requests: the calls
\* whose failure is absorbed succeed, the others may still raise, and a task
\* may be cancelled during the navigation and during browser.stop().
NarrowWorld ==
    [raises |-> {[kind |-> "Exception", msg |-> "net::ERR_NAME_NOT_RESOLVED"]},
     nav_ms |-> {500},
     sources |-> {"<html>example</html>"},
     window |-> {Returns},
     selector |-> {Returns},
     tmp_made |-> {TRUE},
     shot_raising |-> {"none"},
     cancel_at |-> {"go_to", "stop"}]

\* The locals of scrape_with_pydoll at its entry (lines 127-129); ret is the
\* value a `return` has computed while the finally block still runs, exc the
\* exception that propagates through it.
EntryFrame ==
    [page_status_code |-> None, page_error |-> None, page_content |-> None,
     screenshot_data |-> None, screenshot_path |-> None,
     ret |-> None, exc |-> None]

NoChrome == [state |-> "absent", stops |-> 0, users |-> {}]

InitCommon ==
    /\ pc = [r \in Requests |-> "idle"]
    /\ frame = [r \in Requests |-> EntryFrame]
    /\ browser = [r \in Requests |-> 0]
    /\ chrome = [b \in Requests |-> NoChrome]
    /\ created = 0
    /\ tmpfiles = {}
    /\ elapsed = [r \in Requests |-> 0]
    /\ calls = [r \in Requests |-> <<>>]
    /\ response = [r \in Requests |-> None]
    /\ virtual_display = "started"

\* One request, with any body.
Init ==
    /\ \E q \in Payloads :
         request = [r \in Requests |-> IF r = 1 THEN Some(q) ELSE None]
    /\ world = AnyWorld
    /\ InitCommon

\* Every task has a request; the bodies are the concurrent ones.
InitConcurrent ==
    /\ request \in [Requests -> {Some(q) : q \in ConcurrentPayloads}]
    /\ world = NarrowWorld
    /\ InitCommon

\* ------------------------------------------------- ScrapeRequest (62-69)

\* pydantic's HttpUrl: an http or https URL with a host.
IsHttpUrl(u) == u.scheme \in {"http", "https"} /\ u.host # ""

\* Whether the body validates as a ScrapeRequest: url is an HttpUrl; the
\* integer fields are Optional[int] with no constraint on their value.
ValidScrapeRequest(q) == IsHttpUrl(q.url)

\* The keyword arguments scrape_endpoint passes on (lines 286-294).
EndpointArgs(q) ==
    [url |-> q.url,
     wait_after_load |-> OrInt(q.wait_after_load, 0),
     timeout |-> OrInt(q.timeout, DefaultTimeout),
     headers |-> q.headers,
     check_selector |-> q.check_selector,
     screenshot |-> TruthyBool(q.screenshot),
     full_page_screenshot |-> TruthyBool(q.full_page_screenshot)]

args(r) == EndpointArgs(Get(request[r]))

\* --------------------------------------------------- create_browser (79-97)

\* A create_browser that hands every request one module-level Chrome object
\* (a singleton browser manager without a lock).
create_browser_shared(n) == 1

\* Chrome(options=options): a new object each call, the n+1st when n were
\* constructed before.
create_browser(n) == n + 1

\* ------------------------------------------------------------- bookkeeping

Call(op, kind, ms, kwargs) == [op |-> op, kind |-> kind, ms |-> ms, kwargs |-> kwargs]

\* The task of r calls the driver: the call is logged, its time passes, and
\* r has operated on its Chrome object.
DriverCall(r, op, kind, ms, kwargs) ==
    /\ calls' = [calls EXCEPT ![r] = Append(@, Call(op, kind, ms, kwargs))]
    /\ elapsed' = [elapsed EXCEPT ![r] = @ + ms]

Touched(c, r) == [c EXCEPT !.users = @ \cup {r}]

\* A `return` whose status code was never set (line 162 left out).
SuccessResultNoStatus(f) ==
    [content |-> Get(f.page_content),
     pageStatusCode |-> None,
     pageError |-> f.page_error,
     screenshot |-> f.screenshot_data]

\* The dict of the `return` at lines 247-252.
SuccessResult(f) ==
    [content |-> Get(f.page_content),
     pageStatusCode |-> f.page_status_code,
     pageError |-> f.page_error,
     screenshot |-> f.screenshot_data]

\* The dict of the `return`s at lines 257-262 and 266-271.
FailedResult(page_error) ==
    [content |-> "", pageStatusCode |-> None,
     pageError |-> page_error, screenshot |-> None]

\* An exception raised inside the try block, by a call whose outcome is o:
\* `except PageLoadTimeout` (254-262) or `except Exception as e` (263-271);
\* the frame when control reaches the finally block.
Except(f, o) ==
    LET page_error == IF o.kind = "PageLoadTimeout"
                      THEN Some("Page load timeout")
                      ELSE Some(o.msg)
    IN  [f EXCEPT !.page_error = page_error,
                  !.ret = Some(FailedResult(page_error))]

\* A selector handler that records the failure as the page error.
SelectorExceptRecorded(f) == [f EXCEPT !.page_error = Some("selector not found")]

\* `except Exception as e` of the selector wait (177-179): the failure is
\* logged and no local changes.
SelectorExcept(f) == f

\* A screenshot handler that records the failure as the page error.
ScreenshotExceptRecorded(f) ==
    [f EXCEPT !.screenshot_data = None, !.page_error = Some("screenshot failed")]

\* `except Exception as screenshot_error` of the first screenshot block
\* (206-209): the failure is logged and screenshot_data = None.
ScreenshotExcept(f) == [f EXCEPT !.screenshot_data = None]

\* A test that captures whether or not a screenshot was requested.
WantsScreenshotAlways(a) == TRUE

\* `if screenshot or full_page_screenshot:` (186, 213).
WantsScreenshot(a) == a.screenshot \/ a.full_page_screenshot

\* The names bound when line 226 runs: the parameters and locals of
\* scrape_with_pydoll, and the module's globals.
BoundNames ==
    {"url", "wait_after_load", "timeout", "headers", "check_selector",
     "screenshot", "full_page_screenshot", "start_time", "page_status_code",
     "page_error", "browser", "tab", "By", "page_content", "screenshot_data",
     "tempfile", "tmp_file", "screenshot_path", "img_file", "screenshot_bytes",
     "PageCommands", "screenshot_options",
     "asyncio", "base64", "json", "logging", "os", "time", "logger",
     "display", "screen", "screen_width", "screen_height", "virtual_display",
     "app", "ScrapeRequest", "ScrapeResponse", "create_browser"}

\* The second "Capture screenshot if requested" block (211-243): it resets
\* screenshot_data (212); when a screenshot is requested, the argument
\* `page.connection` (226) is evaluated before the driver is called, and
\* with `page` unbound that raises NameError, which `except Exception`
\* (239-242) turns into screenshot_data = None.  Were `page` bound, the
\* driver's base64 data would be kept (230-235).
SecondScreenshotBlock(f, a) ==
    LET reset == [f EXCEPT !.screenshot_data = None]
    IN  IF WantsScreenshot(a)
        THEN IF "page" \in BoundNames
             THEN [reset EXCEPT !.screenshot_data = Some(b64encode(PngBytes))]
             ELSE [reset EXCEPT !.screenshot_data = None]
        ELSE reset

\* Lines 211-252: the second screenshot block, then the `return`.
Return(f, a) ==
    LET g == SecondScreenshotBlock(f, a)
    IN  [g EXCEPT !.ret = Some(SuccessResult(g))]

\* ------------------------------------------- scrape_endpoint (280-300)

\* The server accepts and runs requests until its shutdown handler has run.
Serving == virtual_display = "started"

\* FastAPI validates the body against ScrapeRequest before the handler is
\* called; a body that does not validate is answered 422.
RejectRequest(r) ==
    /\ Serving
    /\ pc[r] = "idle"
    /\ request[r] # None
    /\ ~ValidScrapeRequest(Get(request[r]))
    /\ pc' = [pc EXCEPT ![r] = "rejected"]
    /\ response' = [response EXCEPT ![r] =
                        Some([status |-> HttpUnprocessable, body |-> None])]
    /\ UNCHANGED <<virtual_display, world, request, frame, browser, chrome,
                   created, tmpfiles,
                   elapsed, calls>>

\* scrape_endpoint's `except Exception` (298-300): HTTPException(500).
EndpointError == [status |-> HttpServerError, body |-> None]

\* The handler calls scrape_with_pydoll, which runs to its first await:
\* start_time, create_browser() (outside the try block), browser.start().
\* When Chrome(...) raises, the exception reaches the endpoint's
\* `except Exception`, which answers 500.
scrape_endpoint(r) ==
    /\ Serving
    /\ pc[r] = "idle"
    /\ request[r] # None
    /\ ValidScrapeRequest(Get(request[r]))
    /\ \E o \in {Returns} \cup world.raises :
         IF o.kind = "ok"
         THEN LET b == create_browser(created)
              IN  /\ browser' = [browser EXCEPT ![r] = b]
                  /\ chrome' = [chrome EXCEPT ![b] =
                                   IF @.state = "absent"
                                   THEN [@ EXCEPT !.state = "created"] ELSE @]
                  /\ created' = created + 1
                  /\ pc' = [pc EXCEPT ![r] = "start"]
                  /\ UNCHANGED response
         ELSE /\ pc' = [pc EXCEPT ![r] = "responded"]
              /\ response' = [response EXCEPT ![r] = Some(EndpointError)]
              /\ UNCHANGED <<browser, chrome, created>>
    /\ UNCHANGED <<virtual_display, world, request, frame, tmpfiles, elapsed,
                   calls>>

\* ---------------------------------------- scrape_with_pydoll (103-277)

\* await browser.start() (134).  When it raises, the browser process may or
\* may not have been launched.
BrowserStart(r) ==
    /\ Serving
    /\ pc[r] = "start"
    /\ \E o \in {Returns} \cup world.raises :
         /\ DriverCall(r, "start", o.kind, 0, {})
         /\ IF o.kind = "ok"
            THEN /\ chrome' = [chrome EXCEPT ![browser[r]] =
                                  [Touched(@, r) EXCEPT !.state = "running"]]
                 /\ pc' = [pc EXCEPT ![r] = "new_tab"]
                 /\ UNCHANGED frame
            ELSE /\ \E launched \in BOOLEAN :
                      chrome' = [chrome EXCEPT ![browser[r]] =
                                    [Touched(@, r) EXCEPT !.state =
                                        IF launched THEN "running" ELSE @]]
                 /\ frame' = [frame EXCEPT ![r] = Except(@, o)]
                 /\ pc' = [pc EXCEPT ![r] = "stop"]
    /\ UNCHANGED <<virtual_display, world, request, browser, created,
                   tmpfiles, response>>

\* tab = await browser.new_tab() (136); `if headers:` only logs (140-143);
\* then await browser.set_window_bounds(...) is entered.
NewTab(r) ==
    /\ Serving
    /\ pc[r] = "new_tab"
    /\ \E o \in {Returns} \cup world.raises :
         /\ DriverCall(r, "new_tab", o.kind, 0, {})
         /\ IF o.kind = "ok"
            THEN /\ pc' = [pc EXCEPT ![r] = "set_window_bounds"]
                 /\ UNCHANGED frame
            ELSE /\ frame' = [frame EXCEPT ![r] = Except(@, o)]
                 /\ pc' = [pc EXCEPT ![r] = "stop"]
    /\ chrome' = [chrome EXCEPT ![browser[r]] = Touched(@, r)]
    /\ UNCHANGED <<virtual_display, world, request, browser, created,
                   tmpfiles, response>>

\* await browser.set_window_bounds(...) in its own try (146-154): a failure
\* is logged; either way tab.go_to(str(url)) is awaited next.
SetWindowBounds(r) ==
    /\ Serving
    /\ pc[r] = "set_window_bounds"
    /\ \E o \in world.window :
         DriverCall(r, "set_window_bounds", o.kind, 0, {})
    /\ chrome' = [chrome EXCEPT ![browser[r]] = Touched(@, r)]
    /\ pc' = [pc EXCEPT ![r] = "go_to"]
    /\ UNCHANGED <<virtual_display, world, request, frame, browser, created,
                   tmpfiles, response>>

\* The sleep at lines 165-169, in ms.
PostLoadSleepMs(a) ==
    IF a.wait_after_load > 0 THEN a.wait_after_load ELSE DefaultSleepMs

\* await tab.go_to(str(url)) (157), called without the request's timeout: the
\* driver returns or raises when it does.  On return page_status_code = 200
\* and the sleep is awaited.
GoTo(r) ==
    /\ Serving
    /\ pc[r] = "go_to"
    /\ \E o \in {Returns, PageLoadTimeout} \cup world.raises, ms \in world.nav_ms :
         /\ DriverCall(r, "go_to", o.kind, ms, {<<"url", args(r).url.scheme>>})
         /\ IF o.kind = "ok"
            THEN /\ frame' = [frame EXCEPT ![r].page_status_code = Some(StatusOK)]
                 /\ pc' = [pc EXCEPT ![r] = "sleep"]
            ELSE /\ frame' = [frame EXCEPT ![r] = Except(@, o)]
                 /\ pc' = [pc EXCEPT ![r] = "stop"]
    /\ chrome' = [chrome EXCEPT ![browser[r]] = Touched(@, r)]
    /\ UNCHANGED <<virtual_display, world, request, browser, created,
                   tmpfiles, response>>

\* await asyncio.sleep(...) (165-169) returns; then find_element is awaited
\* when check_selector is truthy (172), tab.page_source otherwise.
Sleep(r) ==
    /\ Serving
    /\ pc[r] = "sleep"
    /\ DriverCall(r, "sleep", "ok", PostLoadSleepMs(args(r)), {})
    /\ pc' = [pc EXCEPT ![r] =
                 IF TruthyStr(args(r).check_selector)
                 THEN "find_element" ELSE "page_source"]
    /\ UNCHANGED <<virtual_display, world, request, frame, browser, chrome,
                   created, tmpfiles, response>>

\* await tab.find_element(By.CSS_SELECTOR, check_selector, timeout=10) in its
\* own try (173-179): found, or an exception after the 10 s; either way
\* tab.page_source is awaited next.
FindElement(r) ==
    /\ Serving
    /\ pc[r] = "find_element"
    /\ \E o \in world.selector :
         /\ DriverCall(r, "find_element", o.kind,
                       IF o.kind = "ok" THEN SelectorFoundMs ELSE SelectorTimeoutMs,
                       {<<"selector", Get(args(r).check_selector)>>,
                        <<"timeout", "10">>})
         /\ frame' = [frame EXCEPT ![r] =
                         IF o.kind = "ok" THEN @ ELSE SelectorExcept(@)]
    /\ chrome' = [chrome EXCEPT ![browser[r]] = Touched(@, r)]
    /\ pc' = [pc EXCEPT ![r] = "page_source"]
    /\ UNCHANGED <<virtual_display, world, request, browser, created,
                   tmpfiles, response>>

\* page_content = await tab.page_source (182) returns or raises.  After it,
\* screenshot_data = None, and when a screenshot is requested (186) a
\* temporary file is made with delete=False (190-191) and
\* tab.take_screenshot(path=...) is awaited; when the file cannot be made,
\* or no screenshot is requested, the function runs on to its `return`.
PageSource(r) ==
    /\ Serving
    /\ pc[r] = "page_source"
    /\ \/ \E o \in world.raises :
            /\ DriverCall(r, "page_source", o.kind, 0, {})
            /\ frame' = [frame EXCEPT ![r] = Except(@, o)]
            /\ pc' = [pc EXCEPT ![r] = "stop"]
            /\ UNCHANGED tmpfiles
       \/ \E doc \in world.sources :
            LET f == [frame[r] EXCEPT !.page_content = Some(doc),
                                      !.screenshot_data = None]
            IN  /\ DriverCall(r, "page_source", "ok", 0, {})
                /\ IF WantsScreenshot(args(r))
                   THEN \E tmp_made \in world.tmp_made :
                          IF tmp_made
                          THEN /\ tmpfiles' = tmpfiles \cup {r}
                               /\ frame' = [frame EXCEPT ![r] =
                                               [f EXCEPT !.screenshot_path = Some(r)]]
                               /\ pc' = [pc EXCEPT ![r] = "take_screenshot"]
                          ELSE /\ frame' = [frame EXCEPT ![r] =
                                               Return(ScreenshotExcept(f), args(r))]
                               /\ pc' = [pc EXCEPT ![r] = "stop"]
                               /\ UNCHANGED tmpfiles
                   ELSE /\ frame' = [frame EXCEPT ![r] = Return(f, args(r))]
                        /\ pc' = [pc EXCEPT ![r] = "stop"]
                        /\ UNCHANGED tmpfiles
    /\ chrome' = [chrome EXCEPT ![browser[r]] = Touched(@, r)]
    /\ UNCHANGED <<virtual_display, world, request, browser, created, response>>

\* await tab.take_screenshot(path=screenshot_path) (194) returns or raises;
\* then the file is read and encoded (197-199) and unlinked (202).  Whichever
\* of these raises, `except Exception` (206-209) sets screenshot_data = None
\* and nothing after the raising step runs.  Then the function runs on to
\* its `return`.
TakeScreenshot(r) ==
    /\ Serving
    /\ pc[r] = "take_screenshot"
    /\ \E raising \in world.shot_raising :
         LET f == IF raising = "none"
                  THEN [frame[r] EXCEPT
                           !.screenshot_data = Some(b64encode(PngBytes))]
                  ELSE ScreenshotExcept(frame[r])
         IN  /\ DriverCall(r, "take_screenshot",
                           IF raising = "take_screenshot" THEN "Exception" ELSE "ok",
                           ScreenshotMs, {<<"path", "tmp.png">>})
             /\ tmpfiles' = IF raising = "none" THEN tmpfiles \ {r} ELSE tmpfiles
             /\ frame' = [frame EXCEPT ![r] = Return(f, args(r))]
    /\ chrome' = [chrome EXCEPT ![browser[r]] = Touched(@, r)]
    /\ pc' = [pc EXCEPT ![r] = "stop"]
    /\ UNCHANGED <<virtual_display, world, request, browser, created, response>>

\* scrape_endpoint's `return ScrapeResponse(**result)` (296).
ScrapeResponse(result) == [status |-> StatusOK, body |-> Some(result)]

\* A finally block that lets the exception of browser.stop() escape (no
\* try around it): the exception replaces the pending `return`.
StopExceptEscapes(f) == [f EXCEPT !.exc = Some("Exception")]

\* `except Exception as e` around browser.stop() (276-277): the failure is
\* logged and no local changes.
StopExcept(f) == f

\* How the task of a request ends once the finally block is done, f being
\* its frame: a pending CancelledError ends the task unanswered (it is no
\* Exception, so the endpoint's handler does not see it), another pending
\* exception reaches the endpoint's `except Exception`, and otherwise the
\* pending `return` completes and the endpoint answers with the result.
EndOfTask(r, f) ==
    IF f.exc = Some("CancelledError")
    THEN /\ pc' = [pc EXCEPT ![r] = "cancelled"]
         /\ UNCHANGED response
    ELSE /\ pc' = [pc EXCEPT ![r] = "responded"]
         /\ response' = [response EXCEPT ![r] =
                             IF f.exc # None THEN Some(EndpointError)
                             ELSE Some(ScrapeResponse(Get(f.ret)))]

\* The finally block (272-277): await browser.stop() returns, or raises an
\* Exception that is logged; the browser process may survive a stop that
\* raised.  Then the pending `return` completes and the endpoint answers,
\* or the pending CancelledError propagates and ends the task.
BrowserStop(r) ==
    /\ Serving
    /\ pc[r] = "stop"
    /\ \E o \in {"ok", "Exception"}, survives \in BOOLEAN :
         /\ o = "ok" => ~survives
         /\ DriverCall(r, "stop", o, 0, {})
         /\ chrome' = [chrome EXCEPT ![browser[r]] =
                          [Touched(@, r) EXCEPT
                              !.stops = @ + 1,
                              !.state = IF survives THEN @ ELSE "stopped"]]
         /\ LET f == IF o = "ok" THEN frame[r] ELSE StopExcept(frame[r])
            IN  /\ frame' = [frame EXCEPT ![r] = f]
                /\ EndOfTask(r, f)
    /\ UNCHANGED <<virtual_display, world, request, browser, created, tmpfiles>>

\* The calls awaited inside the try block.
TryAwaits ==
    {"start", "new_tab", "set_window_bounds", "go_to", "sleep",
     "find_element", "page_source", "take_screenshot"}

\* The task is cancelled while it awaits inside the try block: the awaited
\* call raises CancelledError, a BaseException that no `except Exception`
\* catches, and control reaches the finally block.
Cancel(r) ==
    /\ Serving
    /\ pc[r] \in TryAwaits \cap world.cancel_at
    /\ DriverCall(r, pc[r], "CancelledError", 0, {})
    /\ \E launched \in BOOLEAN :
         /\ launched => pc[r] = "start"
         /\ chrome' = [chrome EXCEPT ![browser[r]] =
                          [Touched(@, r) EXCEPT !.state =
                              IF launched THEN "running" ELSE @]]
    /\ frame' = [frame EXCEPT ![r].exc = Some("CancelledError")]
    /\ pc' = [pc EXCEPT ![r] = "stop"]
    /\ UNCHANGED <<virtual_display, world, request, browser, created,
                   tmpfiles, response>>

\* The task is cancelled while it awaits browser.stop() in the finally
\* block: CancelledError leaves the finally block and the task ends; the
\* interrupted stop may or may not have ended the browser process.
CancelStop(r) ==
    /\ Serving
    /\ pc[r] = "stop"
    /\ "stop" \in world.cancel_at
    /\ DriverCall(r, "stop", "CancelledError", 0, {})
    /\ \E survives \in BOOLEAN :
         chrome' = [chrome EXCEPT ![browser[r]] =
                       [Touched(@, r) EXCEPT
                           !.stops = @ + 1,
                           !.state = IF survives THEN @ ELSE "stopped"]]
    /\ frame' = [frame EXCEPT ![r].exc = Some("CancelledError")]
    /\ pc' = [pc EXCEPT ![r] = "cancelled"]
    /\ UNCHANGED <<virtual_display, world, request, browser, created,
                   tmpfiles, response>>

\* ---------------------------------------------------------- specifications

\* The task of r is between the arrival of its request and its end.
InFlight(r) == pc[r] \in TryAwaits \cup {"stop"}

\* The shutdown handler (316-324). The server runs it once, after the tasks
\* of the requests in flight have ended; it stops the virtual display and
\* nothing else, and an exception of virtual_display.stop() is logged.
shutdown_event ==
    /\ Serving
    /\ \A r \in Requests : ~InFlight(r)
    /\ \E o \in {"ok", "Exception"} :
         virtual_display' = IF o = "ok" THEN "stopped" ELSE "stop_failed"
    /\ UNCHANGED <<request, pc, frame, browser, chrome, created, tmpfiles,
                   elapsed, calls, response, world>>

Next ==
    \/ \E r \in Requests :
         \/ RejectRequest(r)
         \/ scrape_endpoint(r)
         \/ BrowserStart(r)
         \/ NewTab(r)
         \/ SetWindowBounds(r)
         \/ GoTo(r)
         \/ Sleep(r)
         \/ FindElement(r)
         \/ PageSource(r)
         \/ TakeScreenshot(r)
         \/ BrowserStop(r)
         \/ Cancel(r)
         \/ CancelStop(r)
    \/ shutdown_event

\* One request with any body.
Spec == Init /\ [][Next]_vars

\* Concurrent requests.
SpecConcurrent == InitConcurrent /\ [][Next]_vars

\* ------------------------------------------------------------- properties

\* The task of r made the driver call op, and it ended as kind.
Made(r, op, kind) ==
    \E i \in DOMAIN calls[r] : calls[r][i].op = op /\ calls[r][i].kind = kind
Called(r, op) == \E i \in DOMAIN calls[r] : calls[r][i].op = op

\* scrape_with_pydoll has returned a result for r, and which.
Returned(r) == pc[r] = "responded" /\ frame[r].ret # None
Result(r) == Get(frame[r].ret)
\* The task of r has ended.
Ended(r) == pc[r] \in {"rejected", "responded", "cancelled"}

\* An Optional[str] that is None or "".
EmptyStr(o) == o = None \/ Get(o) = ""

\* The driver returned a non-empty document to r.
Extracted(r) ==
    /\ Made(r, "page_source", "ok")
    /\ frame[r].page_content # None
    /\ Get(frame[r].page_content) # ""

ScreenshotRequested(r) == args(r).screenshot \/ args(r).full_page_screenshot

\* Some part of the first screenshot block failed for r: the temporary file
\* could not be made (no driver call followed the extraction),
\* take_screenshot raised, or the read or the unlink raised (the file is
\* still there).
ScreenshotFailed(r) ==
    /\ ScreenshotRequested(r)
    /\ Made(r, "page_source", "ok")
    /\ \/ ~Called(r, "take_screenshot")
       \/ Made(r, "take_screenshot", "Exception")
       \/ Made(r, "take_screenshot", "ok") /\ r \in tmpfiles

\* C1: a request with screenshot=true whose navigation, extraction and
\* screenshot capture (driver call, read and cleanup) all succeed gets a
\* result with a non-empty base64 screenshot and the non-empty content.
C1_ScreenshotDelivered ==
    \A r \in Requests :
        ( /\ Returned(r)
          /\ args(r).screenshot
          /\ Made(r, "go_to", "ok")
          /\ Extracted(r)
          /\ Made(r, "take_screenshot", "ok")
          /\ r \notin tmpfiles )
        => /\ Result(r).screenshot # None
           /\ Get(Result(r).screenshot) # <<>>
           /\ Result(r).content # ""

\* C2: when the navigation takes longer than the timeout passed to
\* scrape_with_pydoll, the result has empty content and a non-empty
\* pageError, and is returned within timeout + OverheadMs.
C2_TimeoutBoundsRequest ==
    \A r \in Requests :
        \A i \in DOMAIN calls[r] :
            ( /\ Returned(r)
              /\ calls[r][i].op = "go_to"
              /\ calls[r][i].ms > args(r).timeout )
            => /\ Result(r).content = ""
               /\ ~EmptyStr(Result(r).pageError)
               /\ elapsed[r] <= args(r).timeout + OverheadMs

\* C3: every returned result has either non-empty content and an empty or
\* absent pageError, or empty content and a non-empty pageError.
C3_ContentXorError ==
    \A r \in Requests :
        Returned(r) =>
            \/ Result(r).content # "" /\ EmptyStr(Result(r).pageError)
            \/ Result(r).content = "" /\ ~EmptyStr(Result(r).pageError)

\* C4: when a screenshot is requested and content extraction succeeds but
\* part of the screenshot capture fails, the result has the extracted
\* content, no pageError, the success status code and no screenshot, and
\* the endpoint answers with it.
C4_ScreenshotFailureAbsorbed ==
    \A r \in Requests :
        (Ended(r) /\ frame[r].exc = None /\ ScreenshotFailed(r))
        => /\ Returned(r)
           /\ Result(r).content = Get(frame[r].page_content)
           /\ Result(r).pageError = None
           /\ Result(r).pageStatusCode = Some(StatusOK)
           /\ Result(r).screenshot = None
           /\ response[r] = Some([status |-> StatusOK, body |-> Some(Result(r))])
C4_Witness ==
    \E r \in Requests :
        /\ Returned(r)
        /\ Made(r, "take_screenshot", "Exception")
        /\ Result(r).content # ""
        /\ Get(request[r]).full_page_screenshot = Some(TRUE)

\* C5: after a selector wait that failed the task goes on to extract the
\* content, and when the extraction succeeds the result is a success with
\* the extracted content and no pageError.
C5_SelectorFailureAbsorbed ==
    \A r \in Requests :
        Made(r, "find_element", "Exception") =>
            /\ pc[r] = "page_source" \/ Called(r, "page_source")
            /\ (Ended(r) /\ frame[r].exc = None /\ Made(r, "page_source", "ok"))
               => /\ Returned(r)
                  /\ Result(r).content = Get(frame[r].page_content)
                  /\ Result(r).pageError = None
                  /\ Result(r).pageStatusCode = Some(StatusOK)
C5_Witness ==
    \E r \in Requests :
        /\ Returned(r)
        /\ Made(r, "find_element", "Exception")
        /\ Made(r, "page_source", "ok")
        /\ Result(r).content # ""

\* C6: when the task of a request has ended, the Chrome object it obtained
\* has been stopped exactly once and its browser process is not running.
C6_ReleasedExactlyOnce ==
    \A r \in Requests :
        (Ended(r) /\ browser[r] # 0)
        => /\ chrome[browser[r]].stops = 1
           /\ chrome[browser[r]].state # "running"

\* C7: no two requests are ever bound to the same Chrome object, and no
\* Chrome object is ever operated on by more than one request (so none
\* passes to another request, failed or not).
C7_ExclusiveInstances ==
    /\ \A r1, r2 \in Requests :
          (r1 # r2 /\ browser[r1] # 0 /\ browser[r2] # 0)
          => browser[r1] # browser[r2]
    /\ \A b \in Requests : Cardinality(chrome[b].users) <= 1
C7_Witness ==
    \E r1, r2 \in Requests :
        /\ r1 # r2
        /\ pc[r1] = "go_to" /\ pc[r2] = "page_source"
        /\ chrome[browser[r1]].state = "running"
        /\ chrome[browser[r2]].state = "running"

\* The Chrome objects whose browser process is running.
LiveBrowsers == {b \in Requests : chrome[b].state = "running"}

\* C8: the number of running browser processes never exceeds the pool
\* capacity.
C8_LiveWithinCapacity == Cardinality(LiveBrowsers) <= PoolCapacity

\* C9: when the browser starts, the navigation succeeds and a non-empty
\* document is extracted, the returned result has that content, no
\* pageError and the status code 200.
C9_SuccessResult ==
    \A r \in Requests :
        ( /\ Ended(r) /\ frame[r].exc = None
          /\ Made(r, "start", "ok")
          /\ Made(r, "go_to", "ok")
          /\ Extracted(r) )
        => /\ Returned(r)
           /\ Result(r).content = Get(frame[r].page_content)
           /\ Result(r).content # ""
           /\ EmptyStr(Result(r).pageError)
           /\ Result(r).pageStatusCode = Some(StatusOK)
           /\ Get(response[r]).status = StatusOK
C9_Witness ==
    \E r \in Requests :
        /\ Returned(r)
        /\ Made(r, "go_to", "ok")
        /\ Extracted(r)
        /\ ~ScreenshotRequested(r)
        /\ elapsed[r] <= args(r).timeout

\* A body the specification calls malformed: a URL that is no HTTP/HTTPS
\* URL, a timeout that is not positive, a negative wait_after_load.
Malformed(q) ==
    \/ ~IsHttpUrl(q.url)
    \/ q.timeout # None /\ Get(q.timeout) <= 0
    \/ q.wait_after_load # None /\ Get(q.wait_after_load) < 0

\* C10: a malformed request is answered with a client error and no Chrome
\* object is ever created for it.
C10_MalformedRejected ==
    \A r \in Requests :
        (request[r] # None /\ Malformed(Get(request[r])))
        => /\ browser[r] = 0
           /\ pc[r] \in {"idle", "rejected"}

\* The browser of r could not be obtained: Chrome(...) raised in
\* create_browser, or browser.start() raised.
BrowserUnavailable(r) == browser[r] = 0 \/ Made(r, "start", "Exception")

\* The number of calls of op in the log of r.
NumCalls(r, op) == Cardinality({i \in DOMAIN calls[r] : calls[r][i].op = op})

\* C11: a request whose browser could not be constructed or started is
\* answered with a server-error response that carries no result, and
\* browser.start() is called at most once for it.
C11_UnavailableIsServerError ==
    \A r \in Requests :
        (pc[r] = "responded" /\ BrowserUnavailable(r))
        => /\ Get(response[r]).status = HttpServerError
           /\ Get(response[r]).body = None
           /\ NumCalls(r, "start") <= 1

\* The i-th driver call of r failed fatally: the navigation timed out or
\* raised, or the extraction of the page source raised.
FatalAt(r, i) ==
    /\ calls[r][i].op \in {"go_to", "page_source"}
    /\ calls[r][i].kind # "ok"

\* C12: after a fatal failure (navigation timeout, navigation error,
\* extraction error) no further step of the protocol runs (only the
\* teardown), and the result returned has content "", no status code, a
\* non-empty pageError and no screenshot.
C12_FatalFailureResult ==
    \A r \in Requests : \A i \in DOMAIN calls[r] :
        FatalAt(r, i)
        => /\ \A j \in DOMAIN calls[r] : j > i => calls[r][j].op = "stop"
           /\ Returned(r)
              => /\ Result(r).content = ""
                 /\ Result(r).pageStatusCode = None
                 /\ ~EmptyStr(Result(r).pageError)
                 /\ Result(r).screenshot = None

\* C13: the post-load wait lasts exactly wait_after_load ms when that is
\* greater than 0, and no time at all when it is 0.
C13_PostLoadWait ==
    \A r \in Requests : \A i \in DOMAIN calls[r] :
        calls[r][i].op = "sleep"
        => /\ args(r).wait_after_load > 0
              => calls[r][i].ms = args(r).wait_after_load
           /\ args(r).wait_after_load = 0 => calls[r][i].ms = 0

\* The steps of the protocol among the driver calls, in the order of the
\* specification.
StepRank ==
    [op \in {"go_to", "sleep", "find_element", "page_source", "take_screenshot"}
        |-> CASE op = "go_to" -> 1
              [] op = "sleep" -> 2
              [] op = "find_element" -> 3
              [] op = "page_source" -> 4
              [] op = "take_screenshot" -> 5]

\* The i-th call of r is a step of the protocol.
IsStep(r, i) == calls[r][i].op \in DOMAIN StepRank

\* Some call of r before its i-th call is op, and it returned.
ResolvedBefore(r, i, op) ==
    \E j \in DOMAIN calls[r] :
        j < i /\ calls[r][j].op = op /\ calls[r][j].kind = "ok"

\* C14: the protocol steps of a request are called in the order navigate,
\* post-load wait, selector wait, content extraction, screenshot, each at
\* most once and only after the one before it has returned; the selector
\* wait is called exactly when check_selector is set, and the driver is
\* asked for a screenshot only after the content was extracted and only
\* when screenshot or full_page_screenshot was requested.
C14_StepsInOrder ==
    \A r \in Requests : \A i \in DOMAIN calls[r] :
        /\ \A j \in DOMAIN calls[r] :
             (i < j /\ IsStep(r, i) /\ IsStep(r, j))
             => /\ StepRank[calls[r][i].op] < StepRank[calls[r][j].op]
                /\ calls[r][i].kind = "ok" \/ calls[r][i].op = "find_element"
        /\ calls[r][i].op = "sleep" => ResolvedBefore(r, i, "go_to")
        /\ calls[r][i].op = "find_element"
           => /\ ResolvedBefore(r, i, "sleep")
              /\ TruthyStr(args(r).check_selector)
        /\ calls[r][i].op = "page_source"
           => /\ ResolvedBefore(r, i, "sleep")
              /\ TruthyStr(args(r).check_selector) => Called(r, "find_element")
        /\ calls[r][i].op = "take_screenshot"
           => /\ ResolvedBefore(r, i, "page_source")
              /\ args(r).screenshot \/ args(r).full_page_screenshot

\* A request ended after all five steps were called.
C14_Witness ==
    \E r \in Requests :
        /\ Ended(r)
        /\ Made(r, "find_element", "ok")
        /\ Made(r, "take_screenshot", "ok")
        /\ Len(calls[r]) >= 8

\* The time the calls of a log took, in ms.
RECURSIVE SumMs(_)
SumMs(log) == IF log = <<>> THEN 0 ELSE Head(log).ms + SumMs(Tail(log))

\* The ms since start_time when r makes its i-th call.
ElapsedBefore(r, i) == SumMs(SubSeq(calls[r], 1, i - 1))

Min(a, b) == IF a <= b THEN a ELSE b

\* C15: the selector wait is started only while budget of the request's
\* timeout remains, and lasts at most the smaller of 10 seconds and the
\* remaining budget.
C15_SelectorWithinBudget ==
    \A r \in Requests : \A i \in DOMAIN calls[r] :
        calls[r][i].op = "find_element"
        => LET remaining == args(r).timeout - ElapsedBefore(r, i)
           IN  /\ remaining > 0
               /\ calls[r][i].ms <= Min(SelectorTimeoutMs, remaining)

\* A call that asks the driver for a capture beyond the viewport (the
\* whole page); without such an argument the driver captures the viewport.
FullPageCapture(call) ==
    \E kw \in call.kwargs :
        /\ kw[1] \in {"beyond_viewport", "capture_beyond_viewport"}
        /\ kw[2] = "true"

\* C16: every screenshot call to the driver asks for a full-page capture
\* exactly when the request's full_page_screenshot flag is true.
C16_FullPageFlagPassed ==
    \A r \in Requests : \A i \in DOMAIN calls[r] :
        calls[r][i].op = "take_screenshot"
        => (FullPageCapture(calls[r][i]) <=> args(r).full_page_screenshot)

\* C17: the virtual display is stopped only when no browser process that
\* was started is still running.
C17_BrowsersDownBeforeDisplay ==
    virtual_display = "stopped" => LiveBrowsers = {}

\* The i-th call of r hands the request's headers to the driver: a call
\* that sets them on the tab, or one that carries them as an argument.
SetsHeaders(r, i) ==
    \/ calls[r][i].op \in {"set_extra_http_headers", "enable_fetch_events"}
    \/ \E kw \in calls[r][i].kwargs : kw[1] = "headers"

\* C18: when the request supplies headers, they have been handed to the
\* driver by the time the navigation is issued.
C18_HeadersBeforeNavigation ==
    \A r \in Requests : \A i \in DOMAIN calls[r] :
        (calls[r][i].op = "go_to" /\ TruthyDict(args(r).headers))
        => \E j \in DOMAIN calls[r] : j <= i /\ SetsHeaders(r, j)

\* In this step browser.stop() raises an exception for r.
StopRaises(r) ==
    /\ pc[r] = "stop"
    /\ Len(calls'[r]) = Len(calls[r]) + 1
    /\ calls'[r][Len(calls'[r])].op = "stop"
    /\ calls'[r][Len(calls'[r])].kind = "Exception"

\* C19: when browser.stop() raises in the finally block, the request ends
\* as it would have without the failure: the result that was pending is
\* the body of a success-status response, unchanged, and no exception of
\* the teardown reaches the endpoint; a pending cancellation stays the
\* only exception.
C19_TeardownFailureAbsorbed ==
    [][\A r \in Requests :
          StopRaises(r)
          => /\ frame'[r] = frame[r]
             /\ IF frame[r].exc = None
                THEN /\ pc'[r] = "responded"
                     /\ response'[r] = Some(ScrapeResponse(Get(frame[r].ret)))
                ELSE /\ pc'[r] = "cancelled"
                     /\ response'[r] = None]_vars

\* A request answered with the content it extracted although
\* browser.stop() raised.
C19_Witness ==
    \E r \in Requests :
        /\ Returned(r)
        /\ Made(r, "stop", "Exception")
        /\ Extracted(r)
        /\ Get(response[r]).body = Some(Result(r))

\* C20: when a request has been answered, the temporary screenshot file
\* it created is no longer on disk.
C20_TempFileDeleted ==
    \A r \in Requests : pc[r] = "responded" => r \notin tmpfiles

TypeOK ==
    /\ pc \in [Requests -> {"idle", "rejected", "responded", "cancelled", "stop"}
                              \cup TryAwaits]
    /\ browser \in [Requests -> 0..NumRequests]
    /\ created \in 0..NumRequests
    /\ tmpfiles \subseteq Requests
    /\ virtual_display \in {"started", "stopped", "stop_failed"}

====
